---- MODULE Spec2Model ----
(***************************************************************************)
(* herald: DHCPv4 client state machine (src/src/v4/handler.rs), the        *)
(* messages it builds (src/src/v4/message.rs) and the Action / Event /     *)
(* Lease types of src/src/client.rs.                                       *)
(*                                                                         *)
(* One step of the model is one call of DhcpV4Handler::handle_event.  The  *)
(* variables state, mac_address, xid and offer are the fields of the       *)
(* handler.  event is the argument of the last call, result is what that   *)
(* call returned and visited lists the values the call assigned to         *)
(* self.state, in order.                                                   *)
(***************************************************************************)
EXTENDS Integers, Sequences, FiniteSets, TLC

VARIABLES state, mac_address, xid, offer, event, result, visited

vars == <<state, mac_address, xid, offer, event, result, visited>>

(***************************************************************************)
(* The driver, DhcpClient::run (src/src/client.rs).  pc is its position:   *)
(* "start" before the first call, "loop" at the match on next_action,      *)
(* "wait" suspended in wait_for_response, "return" after apply_lease and   *)
(* "done" once run has returned run_result.  wait_secs is the deadline of  *)
(* the current wait (under TimedSpec, what is left of it), recv how the    *)
(* last wait ended, sent the last datagram                                 *)
(* given to send_to, fed the number of events the last step fed to the     *)
(* state machine and applied the leases given to apply_lease.              *)
(***************************************************************************)
VARIABLES pc, next_action, wait_secs, recv, sent, fed, applied, run_result

dvars == <<pc, next_action, wait_secs, recv, sent, fed, applied, run_result>>

(***************************************************************************)
(* The socket factory, new_tokio_socket_bound_to_device                    *)
(* (src/src/network/mod.rs), which DhcpClient::new calls.  factory is one  *)
(* call of it: its arguments, the platform it was built for, the step it   *)
(* is at, the steps it has attempted, the socket as configured so far and  *)
(* what it returned.                                                       *)
(***************************************************************************)
VARIABLE factory

allvars == <<vars, dvars, factory>>

----------------------------------------------------------------------------
(* Bounds of the model *)

\* transaction ids are 0..MaxXid (u32 in the code)
MaxXid == 1

\* IPv4 addresses are 0.0.0.0 and 192.168.1.1 .. 192.168.1.MaxIp
MaxIp == 2

----------------------------------------------------------------------------
(* Option<T> *)

None == <<>>

Some(v) == <<v>>

IsSome(o) == o # <<>>

Unwrap(o) == o[1]

----------------------------------------------------------------------------
(* Program constants *)

\* an Ipv4Addr is its four octets; Ipv4Addr::UNSPECIFIED
UNSPECIFIED == <<0, 0, 0, 0>>

BROADCAST_IP == <<255, 255, 255, 255>>

SERVER_PORT == 67

CLIENT_PORT == 68

\* Duration::from_secs(5)
WAIT_SECS == 5

\* ClientConfig::new: request_timeout, which run never reads
REQUEST_TIMEOUT_SECS == 10

\* v4::Opcode
BootRequest == 1

\* the opcode of a server's reply
BootReply == BootRequest + 1

\* v4::HType::Eth
Eth == 1

\* v4::MessageType, the payload of option 53
Discover == 1

Offer == 2

Request == 3

Ack == 5

Nak == 6

\* v4::OptionCode
SubnetMask == 1

Router == 3

DomainNameServer == 6

DomainName == 15

RequestedIpAddress == 50

AddressLeaseTime == 51

MessageType == 53

ServerIdentifier == 54

ParameterRequestList == 55

ClientIdentifier == 61

End == 255

\* the broadcast bit of the flags field
BROADCAST_FLAG == 32768

\* the magic cookie 63 82 53 63 that precedes the options
MAGIC_COOKIE == <<99, 130, 83, 99>>

\* length of the chaddr field on the wire
CHADDR_LEN == 16

DhcpV4State == {"Init", "Selecting", "Requesting", "Bound"}

Xids == 0..MaxXid

Ip(i) == <<192, 168, 1, i>>

Ips == {UNSPECIFIED} \cup {Ip(i) : i \in 1..MaxIp}

\* two client hardware addresses (6 bytes each)
Macs == { <<0, 12, 41, 168, 146, 244>>, <<2, 0, 0, 0, 0, 1>> }

----------------------------------------------------------------------------
(* v4::Message and its wire form (dhcproto, as message.rs and handler.rs   *)
(* use it).  A message is a record of header fields and opts, a function   *)
(* from the option codes present to their typed payloads.                  *)

\* msg.opts().get(code)
get(opts, code) == IF code \in DOMAIN opts THEN Some(opts[code]) ELSE None

\* msg.opts_mut().insert(option): one entry per code, the last insert wins
insert(opts, code, payload) == (code :> payload) @@ opts

\* v4::Message::default(), before the setters are applied
MessageDefault ==
    [opcode |-> BootRequest, htype |-> Eth, hops |-> 0, xid |-> 0, secs |-> 0,
     broadcast |-> FALSE, ciaddr |-> UNSPECIFIED, yiaddr |-> UNSPECIFIED,
     chaddr |-> <<>>, opts |-> <<>>]

Min(S) == CHOOSE m \in S : \A n \in S : m <= n

RECURSIVE EncodeOpts(_, _)
\* the options of codes S as (code, payload) pairs in ascending code order
EncodeOpts(opts, S) ==
    IF S = {} THEN <<>>
    ELSE LET c == Min(S) IN <<<<c, opts[c]>>>> \o EncodeOpts(opts, S \ {c})

\* chaddr is written as CHADDR_LEN bytes, zero padded
PadChaddr(mac) == [i \in 1..CHADDR_LEN |-> IF i <= Len(mac) THEN mac[i] ELSE 0]

\* msg.encode(&mut encoder): fixed header, magic cookie, options, End
Encode(msg) ==
    [op |-> msg.opcode, htype |-> msg.htype, hlen |-> Len(msg.chaddr),
     hops |-> msg.hops, xid |-> msg.xid, secs |-> msg.secs,
     flags |-> IF msg.broadcast THEN BROADCAST_FLAG ELSE 0,
     ciaddr |-> msg.ciaddr, yiaddr |-> msg.yiaddr,
     chaddr |-> PadChaddr(msg.chaddr),
     cookie |-> MAGIC_COOKIE,
     options |-> EncodeOpts(msg.opts, DOMAIN msg.opts) \o << <<End>> >>]

\* the option map of a decoded datagram: every (code, payload) before End
DecodeOpts(tlvs) ==
    LET idx == {i \in DOMAIN tlvs : tlvs[i][1] # End}
        codes == {tlvs[i][1] : i \in idx}
    IN [c \in codes |-> tlvs[CHOOSE i \in idx : tlvs[i][1] = c][2]]

\* v4::Message::decode: an error unless the magic cookie is in place
Decode(bytes) ==
    IF bytes.cookie # MAGIC_COOKIE
    THEN [ok |-> FALSE, val |-> "decode"]
    ELSE [ok |-> TRUE,
          val |-> [opcode |-> bytes.op, htype |-> bytes.htype, hops |-> bytes.hops,
                   xid |-> bytes.xid, secs |-> bytes.secs,
                   broadcast |-> (bytes.flags \div BROADCAST_FLAG) % 2 = 1,
                   ciaddr |-> bytes.ciaddr, yiaddr |-> bytes.yiaddr,
                   chaddr |-> SubSeq(bytes.chaddr, 1, bytes.hlen),
                   opts |-> DecodeOpts(bytes.options)]]

----------------------------------------------------------------------------
(* src/src/v4/message.rs *)

\* {0x01} || MAC
ClientId(mac_addr) == <<Eth>> \o mac_addr

ParameterList == <<SubnetMask, Router, DomainNameServer, DomainName>>

build_dhcp_discover(mac_addr, xid_) ==
    LET msg0 == [MessageDefault EXCEPT !.opcode = BootRequest, !.chaddr = mac_addr,
                                       !.htype = Eth, !.hops = 0, !.xid = xid_,
                                       !.secs = 0, !.broadcast = TRUE]
        o1 == insert(msg0.opts, MessageType, Discover)
        o2 == insert(o1, ClientIdentifier, ClientId(mac_addr))
        o3 == insert(o2, ParameterRequestList, ParameterList)
    IN Encode([msg0 EXCEPT !.opts = o3])

\* build_dhcp_request with the two addresses in each other's option
build_dhcp_request_swapped(mac_addr, xid_, offered_ip, server_ip) ==
    LET msg0 == [MessageDefault EXCEPT !.opcode = BootRequest, !.chaddr = mac_addr,
                                       !.htype = Eth, !.xid = xid_,
                                       !.ciaddr = UNSPECIFIED]
        o1 == insert(msg0.opts, MessageType, Request)
        o2 == insert(o1, RequestedIpAddress, server_ip)
        o3 == insert(o2, ServerIdentifier, offered_ip)
        o4 == insert(o3, ClientIdentifier, ClientId(mac_addr))
        o5 == insert(o4, ParameterRequestList, ParameterList)
    IN Encode([msg0 EXCEPT !.opts = o5])

build_dhcp_request(mac_addr, xid_, offered_ip, server_ip) ==
    LET msg0 == [MessageDefault EXCEPT !.opcode = BootRequest, !.chaddr = mac_addr,
                                       !.htype = Eth, !.xid = xid_,
                                       !.ciaddr = UNSPECIFIED]
        o1 == insert(msg0.opts, MessageType, Request)
        o2 == insert(o1, RequestedIpAddress, offered_ip)
        o3 == insert(o2, ServerIdentifier, server_ip)
        o4 == insert(o3, ClientIdentifier, ClientId(mac_addr))
        o5 == insert(o4, ParameterRequestList, ParameterList)
    IN Encode([msg0 EXCEPT !.opts = o5])

----------------------------------------------------------------------------
(* src/src/client.rs: Action, Event, Lease; src/src/error.rs: HeraldError *)

Send(packet, addr) == [type |-> "Send", packet |-> packet, addr |-> addr]

Wait(secs) == [type |-> "Wait", secs |-> secs]

StoreLease(lease) == [type |-> "StoreLease", lease |-> lease]

Exit == [type |-> "Exit"]

EvTimeout == [type |-> "Timeout", data |-> <<>>]

EvPacketReceived(data) == [type |-> "PacketReceived", data |-> data]

Protocol(what) == [kind |-> "Protocol", what |-> what]

Critical(what) == [kind |-> "Critical", what |-> what]

\* Result<Action, HeraldError>
Ok(v) == [ok |-> TRUE, val |-> v]

Err(e) == [ok |-> FALSE, val |-> e]

----------------------------------------------------------------------------
(* src/src/v4/handler.rs.  self is the record of the handler's fields plus *)
(* visited; every method returns the handler it leaves and its result.     *)

\* SocketAddr::from_str("255.255.255.255:67") in handle_init
DiscoverAddr == [ip |-> BROADCAST_IP, port |-> SERVER_PORT]

\* a REQUEST addressed to the client port
RequestAddrClientPort == [ip |-> BROADCAST_IP, port |-> CLIENT_PORT]

\* SocketAddr::from_str("255.255.255.255:67") in handle_requesting
RequestAddr == [ip |-> BROADCAST_IP, port |-> SERVER_PORT]

\* self.state = s
SetState(self, s) == [self EXCEPT !.state = s, !.visited = Append(@, s)]

\* handle_init without the assignment to self.state
handle_init_no_transition(self) ==
    LET discover_packet == build_dhcp_discover(self.mac_address, self.xid)
    IN [self |-> self, ret |-> Ok(Send(discover_packet, DiscoverAddr))]

handle_init(self) ==
    LET s1 == SetState(self, "Selecting")
        discover_packet == build_dhcp_discover(s1.mac_address, s1.xid)
    IN [self |-> s1, ret |-> Ok(Send(discover_packet, DiscoverAddr))]

handle_requesting(self) ==
    IF IsSome(self.offer)
    THEN LET offer_ == Unwrap(self.offer)
             server_id == get(offer_.opts, ServerIdentifier)
         IN IF ~IsSome(server_id)
            THEN [self |-> self,
                  ret |-> Err(Protocol("No server identifier in offer"))]
            ELSE LET offered_ip == offer_.yiaddr
                     request_packet ==
                         build_dhcp_request(self.mac_address, self.xid,
                                            offered_ip, Unwrap(server_id))
                 IN [self |-> self, ret |-> Ok(Send(request_packet, RequestAddr))]
    ELSE [self |-> self, ret |-> Err(Critical("No offer available for request"))]

\* handle_selecting that keeps waiting on a timeout instead of retrying
handle_selecting_no_retry(self, ev) ==
    IF ev.type = "PacketReceived"
    THEN LET d == Decode(ev.data) IN
         IF ~d.ok
         THEN [self |-> self, ret |-> Err(Protocol(d.val))]
         ELSE LET msg == d.val IN
              IF /\ msg.xid = self.xid
                 /\ get(msg.opts, MessageType) = Some(Offer)
              THEN handle_requesting(
                       SetState([self EXCEPT !.offer = Some(msg)], "Requesting"))
              ELSE [self |-> self, ret |-> Ok(Wait(WAIT_SECS))]
    ELSE [self |-> self, ret |-> Ok(Wait(WAIT_SECS))]

\* handle_selecting that draws a new xid (the next one) for the retry
handle_selecting_new_xid(self, ev) ==
    IF ev.type = "PacketReceived"
    THEN LET d == Decode(ev.data) IN
         IF ~d.ok
         THEN [self |-> self, ret |-> Err(Protocol(d.val))]
         ELSE LET msg == d.val IN
              IF /\ msg.xid = self.xid
                 /\ get(msg.opts, MessageType) = Some(Offer)
              THEN handle_requesting(
                       SetState([self EXCEPT !.offer = Some(msg)], "Requesting"))
              ELSE [self |-> self, ret |-> Ok(Wait(WAIT_SECS))]
    ELSE handle_init([SetState(self, "Init") EXCEPT
                          !.xid = (self.xid + 1) % (MaxXid + 1)])

\* handle_selecting that enters Requesting without storing the OFFER
handle_selecting_drops_offer(self, ev) ==
    IF ev.type = "PacketReceived"
    THEN LET d == Decode(ev.data) IN
         IF ~d.ok
         THEN [self |-> self, ret |-> Err(Protocol(d.val))]
         ELSE LET msg == d.val IN
              IF /\ msg.xid = self.xid
                 /\ get(msg.opts, MessageType) = Some(Offer)
              THEN handle_requesting(SetState(self, "Requesting"))
              ELSE [self |-> self, ret |-> Ok(Wait(WAIT_SECS))]
    ELSE handle_init(SetState(self, "Init"))

handle_selecting(self, ev) ==
    IF ev.type = "PacketReceived"
    THEN LET d == Decode(ev.data) IN
         IF ~d.ok
         THEN [self |-> self, ret |-> Err(Protocol(d.val))]
         ELSE LET msg == d.val IN
              IF /\ msg.xid = self.xid
                 /\ get(msg.opts, MessageType) = Some(Offer)
              THEN handle_requesting(
                       SetState([self EXCEPT !.offer = Some(msg)], "Requesting"))
              ELSE [self |-> self, ret |-> Ok(Wait(WAIT_SECS))]
    ELSE handle_init(SetState(self, "Init"))

\* `*secs as u64`: a u32 (two 16-bit halves) widened to four halves
AsU64(secs) == <<0, 0>> \o secs

\* Duration::from_secs
from_secs(secs) == [secs |-> secs, nanos |-> 0]

\* Option::and_then(|v| Some(f(v))) with f = from_secs(v as u64)
LeaseDuration(o) == IF IsSome(o) THEN Some(from_secs(AsU64(Unwrap(o)))) ELSE None

\* extract_lease_info with the routers read from the DNS option
extract_lease_info_routers_from_dns(msg) ==
    [offered_ip |-> msg.yiaddr,
     subnet_mask |-> get(msg.opts, SubnetMask),
     routers |-> get(msg.opts, DomainNameServer),
     dns_servers |-> get(msg.opts, DomainNameServer),
     lease_duration |-> LeaseDuration(get(msg.opts, AddressLeaseTime)),
     server_identifier |-> get(msg.opts, ServerIdentifier)]

extract_lease_info(msg) ==
    [offered_ip |-> msg.yiaddr,
     subnet_mask |-> get(msg.opts, SubnetMask),
     routers |-> get(msg.opts, Router),
     dns_servers |-> get(msg.opts, DomainNameServer),
     lease_duration |-> LeaseDuration(get(msg.opts, AddressLeaseTime)),
     server_identifier |-> get(msg.opts, ServerIdentifier)]

\* handle_requesting_response that takes a later OFFER as the pending offer
handle_requesting_response_takes_offer(self, ev, random) ==
    IF ev.type = "PacketReceived"
    THEN LET d == Decode(ev.data) IN
         IF ~d.ok
         THEN [self |-> self, ret |-> Err(Protocol(d.val))]
         ELSE LET msg == d.val
                  msg_type == get(msg.opts, MessageType)
              IN
              IF msg.xid = self.xid
              THEN IF msg_type = Some(Ack)
                   THEN LET lease == extract_lease_info(msg)
                        IN [self |-> SetState(self, "Bound"),
                            ret |-> Ok(StoreLease(lease))]
                   ELSE IF msg_type = Some(Nak)
                   THEN handle_init(
                            [SetState(self, "Init") EXCEPT !.offer = None,
                                                           !.xid = random,
                                                           !.drawn = TRUE])
                   ELSE IF msg_type = Some(Offer)
                   THEN [self |-> [self EXCEPT !.offer = Some(msg)],
                         ret |-> Ok(Wait(WAIT_SECS))]
                   ELSE [self |-> self, ret |-> Ok(Wait(WAIT_SECS))]
              ELSE [self |-> self, ret |-> Ok(Wait(WAIT_SECS))]
    ELSE handle_requesting(self)

\* handle_requesting_response that, on a NAK, waits in Init for the next event
handle_requesting_response_nak_waits(self, ev, random) ==
    IF ev.type = "PacketReceived"
    THEN LET d == Decode(ev.data) IN
         IF ~d.ok
         THEN [self |-> self, ret |-> Err(Protocol(d.val))]
         ELSE LET msg == d.val
                  msg_type == get(msg.opts, MessageType)
              IN
              IF msg.xid = self.xid
              THEN IF msg_type = Some(Ack)
                   THEN LET lease == extract_lease_info(msg)
                        IN [self |-> SetState(self, "Bound"),
                            ret |-> Ok(StoreLease(lease))]
                   ELSE IF msg_type = Some(Nak)
                   THEN [self |-> [SetState(self, "Init") EXCEPT !.offer = None,
                                                                 !.xid = random,
                                                                 !.drawn = TRUE],
                         ret |-> Ok(Wait(WAIT_SECS))]
                   ELSE [self |-> self, ret |-> Ok(Wait(WAIT_SECS))]
              ELSE [self |-> self, ret |-> Ok(Wait(WAIT_SECS))]
    ELSE handle_requesting(self)

\* handle_requesting_response that accepts an ACK only for the offered address
handle_requesting_response_checks_offer(self, ev, random) ==
    IF ev.type = "PacketReceived"
    THEN LET d == Decode(ev.data) IN
         IF ~d.ok
         THEN [self |-> self, ret |-> Err(Protocol(d.val))]
         ELSE LET msg == d.val
                  msg_type == get(msg.opts, MessageType)
              IN
              IF msg.xid = self.xid
              THEN IF /\ msg_type = Some(Ack)
                      /\ IsSome(self.offer)
                      /\ msg.yiaddr = Unwrap(self.offer).yiaddr
                   THEN LET lease == extract_lease_info(msg)
                        IN [self |-> SetState(self, "Bound"),
                            ret |-> Ok(StoreLease(lease))]
                   ELSE IF msg_type = Some(Nak)
                   THEN handle_init(
                            [SetState(self, "Init") EXCEPT !.offer = None,
                                                           !.xid = random,
                                                           !.drawn = TRUE])
                   ELSE [self |-> self, ret |-> Ok(Wait(WAIT_SECS))]
              ELSE [self |-> self, ret |-> Ok(Wait(WAIT_SECS))]
    ELSE handle_requesting(self)

\* random is the value rand::random() returns if this call draws one; drawn
\* tells that it did
handle_requesting_response(self, ev, random) ==
    IF ev.type = "PacketReceived"
    THEN LET d == Decode(ev.data) IN
         IF ~d.ok
         THEN [self |-> self, ret |-> Err(Protocol(d.val))]
         ELSE LET msg == d.val
                  msg_type == get(msg.opts, MessageType)
              IN
              IF msg.xid = self.xid
              THEN IF msg_type = Some(Ack)
                   THEN LET lease == extract_lease_info(msg)
                        IN [self |-> SetState(self, "Bound"),
                            ret |-> Ok(StoreLease(lease))]
                   ELSE IF msg_type = Some(Nak)
                   THEN handle_init(
                            [SetState(self, "Init") EXCEPT !.offer = None,
                                                           !.xid = random,
                                                           !.drawn = TRUE])
                   ELSE [self |-> self, ret |-> Ok(Wait(WAIT_SECS))]
              ELSE [self |-> self, ret |-> Ok(Wait(WAIT_SECS))]
    ELSE handle_requesting(self)

\* handle_event that keeps processing replies once Bound
handle_event_bound_listens(self, ev, random) ==
    LET s0 == [self EXCEPT !.visited = <<>>, !.drawn = FALSE] IN
    CASE s0.state = "Init" -> handle_init(s0)
      [] s0.state = "Selecting" -> handle_selecting(s0, ev)
      [] s0.state \in {"Requesting", "Bound"} ->
             handle_requesting_response(s0, ev, random)

handle_event(self, ev, random) ==
    LET s0 == [self EXCEPT !.visited = <<>>, !.drawn = FALSE] IN
    CASE s0.state = "Init" -> handle_init(s0)
      [] s0.state = "Selecting" -> handle_selecting(s0, ev)
      [] s0.state = "Requesting" -> handle_requesting_response(s0, ev, random)
      [] s0.state = "Bound" -> [self |-> s0, ret |-> Ok(Exit)]

----------------------------------------------------------------------------
(* Datagrams a server on the link may send *)

\* the configuration options of a reply: none, all four, each one alone.
\* A u32 payload is its two 16-bit halves: <<0, 3600>> is 3600 and
\* <<65535, 65535>> is 0xFFFFFFFF.
LeaseProfiles ==
    { <<>>,
      (SubnetMask :> <<255, 255, 255, 0>>) @@ (Router :> <<Ip(1)>>)
          @@ (DomainNameServer :> <<<<8, 8, 8, 8>>, Ip(1)>>)
          @@ (AddressLeaseTime :> <<0, 3600>>),
      (SubnetMask :> <<255, 255, 255, 0>>),
      (Router :> <<Ip(2), Ip(1)>>),
      (DomainNameServer :> <<<<8, 8, 8, 8>>>>),
      (AddressLeaseTime :> <<65535, 65535>>) }

\* the message types a reply may carry; none for a reply without option 53
ReplyTypes == {None, Some(Offer), Some(Ack), Some(Nak), Some(Discover)}

ServerMessage(x, y, t, sid, profile) ==
    LET o1 == IF IsSome(t) THEN insert(profile, MessageType, Unwrap(t)) ELSE profile
        o2 == IF IsSome(sid) THEN insert(o1, ServerIdentifier, Unwrap(sid)) ELSE o1
    IN [MessageDefault EXCEPT !.opcode = BootReply, !.xid = x, !.yiaddr = y,
                              !.chaddr = <<0, 12, 41, 168, 146, 244>>, !.opts = o2]

ServerIds == {None} \cup {Some(i) : i \in Ips \ {UNSPECIFIED}}

\* OFFERs and ACKs with every yiaddr and every server identifier, ACKs with
\* every profile of configuration options, and one reply of each other kind
ServerMessages ==
    UNION { { ServerMessage(x, y, Some(t), sid, <<>>) :
                  y \in Ips, sid \in ServerIds, t \in {Offer, Ack} }
            \cup { ServerMessage(x, Ip(1), Some(Ack), Some(Ip(1)), p) :
                       p \in LeaseProfiles }
            \cup { ServerMessage(x, UNSPECIFIED, t, None, <<>>) :
                       t \in ReplyTypes \ {Some(Offer), Some(Ack)} }
            : x \in Xids }

\* bytes that are no DHCP message: the cookie is not where it should be
Garbage == [Encode(MessageDefault) EXCEPT !.cookie = <<0, 1, 2>>]

Datagrams == {Encode(m) : m \in ServerMessages} \cup {Garbage}

----------------------------------------------------------------------------
(* src/src/network/mod.rs: the socket and the result of the factory *)

\* interface names the factory may be given
Interfaces == {"eth0", "lo", "wlan0"}

\* ports the factory may be given: the DHCP client port, the server port and
\* an unprivileged one
Ports == {CLIENT_PORT, SERVER_PORT, 1000 + CLIENT_PORT}

\* no socket yet: no descriptor, no option set, not bound, not registered
NoSocket ==
    [fd |-> FALSE, broadcast |-> FALSE, reuse_address |-> FALSE,
     device |-> None, addr |-> None, nonblocking |-> FALSE, tokio |-> FALSE]

\* SocketError::kind(io::Error)
SocketError(kind) == [kind |-> kind]

\* SocketError::BindToDevice { interface, source }
BindToDeviceError(interface) == [kind |-> "BindToDevice", interface |-> interface]

\* the call new_tokio_socket_bound_to_device(interface, port) at its entry, in
\* a build for Linux or for another platform
FactoryCall(interface, port, linux) ==
    [interface |-> interface, port |-> port, linux |-> linux, at |-> "Socket::new",
     trace |-> <<>>, sock |-> NoSocket, result |-> None]

\* the socket of a DhcpClient: DhcpClient::new got it from the factory with
\* config.client_port
ClientSocket ==
    LET sock == [fd |-> TRUE, broadcast |-> TRUE, reuse_address |-> TRUE,
                 device |-> Some("eth0"),
                 addr |-> Some([ip |-> UNSPECIFIED, port |-> CLIENT_PORT]),
                 nonblocking |-> TRUE, tokio |-> TRUE]
    IN [interface |-> "eth0", port |-> CLIENT_PORT, linux |-> TRUE, at |-> "return",
        trace |-> <<"Socket::new", "set_broadcast", "set_reuse_address",
                    "setsockopt", "bind", "set_nonblocking", "from_std">>,
        sock |-> sock, result |-> Some(Ok(sock))]

----------------------------------------------------------------------------
(* The state machine under every sequence of events *)

NotCalled == [ok |-> TRUE, val |-> [type |-> "NotCalled"]]

NoEvent == [type |-> "None", data |-> <<>>]

NoAction == [type |-> "NotCalled"]

NoRecv == [kind |-> "none", data |-> <<>>]

\* DhcpClient::new: the socket, and the state machine boxed but not yet run
DriverInit ==
    /\ pc = "start"
    /\ next_action = NoAction
    /\ wait_secs = 0
    /\ recv = NoRecv
    /\ sent = None
    /\ fed = 0
    /\ applied = <<>>
    /\ run_result = None
    /\ factory = ClientSocket

\* DhcpV4Handler::new
Init ==
    /\ state = "Init"
    /\ mac_address \in Macs
    /\ xid \in Xids
    /\ offer = None
    /\ event = NoEvent
    /\ result = NotCalled
    /\ visited = <<>>
    /\ DriverInit

Self == [state |-> state, mac_address |-> mac_address, xid |-> xid,
         offer |-> offer, visited |-> visited, drawn |-> FALSE]

\* the handler and the result that the call leaves
Returns(r) ==
    /\ state' = r.self.state
    /\ mac_address' = r.self.mac_address
    /\ xid' = r.self.xid
    /\ offer' = r.self.offer
    /\ visited' = r.self.visited
    /\ result' = r.ret

\* one call handle_event(ev); a call that draws a random number may get any
HandleEvent(ev) ==
    LET r0 == handle_event(Self, ev, xid) IN
    IF r0.self.drawn
    THEN \E random \in Xids : Returns(handle_event(Self, ev, random))
    ELSE Returns(r0)

\* the caller feeds Event::Timeout
Timeout ==
    /\ event' = EvTimeout
    /\ HandleEvent(EvTimeout)
    /\ UNCHANGED <<dvars, factory>>

\* the caller feeds Event::PacketReceived(data)
PacketReceived ==
    \E data \in Datagrams :
        /\ event' = EvPacketReceived(data)
        /\ HandleEvent(EvPacketReceived(data))
        /\ UNCHANGED <<dvars, factory>>

Next == Timeout \/ PacketReceived

Spec == Init /\ [][Next]_vars

----------------------------------------------------------------------------
(* src/src/client.rs: DhcpClient::run and wait_for_response, one action    *)
(* per step between two suspension points                                  *)

Io(what) == [kind |-> "Io", what |-> what]

\* run returns res
Return(res) ==
    /\ pc' = "done"
    /\ run_result' = Some(res)

\* next_action = handle_event(ev)?, but an error keeps the driver waiting
Feed_ignores_error(ev) ==
    /\ event' = ev
    /\ HandleEvent(ev)
    /\ fed' = 1
    /\ IF result'.ok
       THEN /\ next_action' = result'.val
            /\ pc' = "loop"
       ELSE /\ next_action' = next_action
            /\ pc' = "wait"
    /\ UNCHANGED run_result

\* next_action = self.state_machine.handle_event(ev)?
Feed(ev) ==
    /\ event' = ev
    /\ HandleEvent(ev)
    /\ fed' = 1
    /\ IF result'.ok
       THEN /\ next_action' = result'.val
            /\ pc' = "loop"
            /\ UNCHANGED run_result
       ELSE /\ next_action' = next_action
            /\ Return(Err(result'.val))

\* run starts the state machine with a Timeout
RunStart ==
    /\ pc = "start"
    /\ Feed(EvTimeout)
    /\ UNCHANGED <<factory, wait_secs, recv, sent, applied>>

\* Action::Send and the send fed straight into a Timeout, without a wait
SendDatagram_then_timeout ==
    /\ pc = "loop"
    /\ next_action.type = "Send"
    /\ sent' = Some(<<next_action.packet, next_action.addr>>)
    /\ Feed(EvTimeout)
    /\ UNCHANGED <<factory, wait_secs, recv, applied>>

\* Action::Send: send_to succeeds and wait_for_response(5 s) begins
SendDatagram ==
    /\ pc = "loop"
    /\ next_action.type = "Send"
    /\ sent' = Some(<<next_action.packet, next_action.addr>>)
    /\ pc' = "wait"
    /\ wait_secs' = WAIT_SECS
    /\ fed' = 0
    /\ UNCHANGED <<factory, vars, next_action, recv, applied, run_result>>

\* Action::Send: send_to fails and `?` returns the error
SendFails ==
    /\ pc = "loop"
    /\ next_action.type = "Send"
    /\ Return(Err(Io("send_to")))
    /\ fed' = 0
    /\ UNCHANGED <<factory, vars, next_action, wait_secs, recv, sent, applied>>

\* Action::Wait that goes on with what is left of the previous deadline
EnterWait_keeps_deadline ==
    /\ pc = "loop"
    /\ next_action.type = "Wait"
    /\ pc' = "wait"
    /\ fed' = 0
    /\ UNCHANGED <<factory, vars, next_action, wait_secs, recv, sent, applied, run_result>>

\* Action::Wait(duration): wait_for_response(duration) begins
EnterWait ==
    /\ pc = "loop"
    /\ next_action.type = "Wait"
    /\ pc' = "wait"
    /\ wait_secs' = next_action.secs
    /\ fed' = 0
    /\ UNCHANGED <<factory, vars, next_action, recv, sent, applied, run_result>>

\* wait_for_response: recv_from yields a datagram before the deadline
RecvDatagram ==
    \E data \in Datagrams :
        /\ pc = "wait"
        /\ recv' = [kind |-> "datagram", data |-> data]
        /\ Feed(EvPacketReceived(data))
        /\ UNCHANGED <<factory, wait_secs, sent, applied>>

\* wait_for_response that takes a failure of recv_from for an expired wait
RecvFails_as_timeout ==
    /\ pc = "wait"
    /\ recv' = [kind |-> "error", data |-> <<>>]
    /\ Feed(EvTimeout)
    /\ UNCHANGED <<factory, wait_secs, sent, applied>>

\* wait_for_response: recv_from fails
RecvFails ==
    /\ pc = "wait"
    /\ recv' = [kind |-> "error", data |-> <<>>]
    /\ Return(Err(Io("recv_from")))
    /\ fed' = 0
    /\ UNCHANGED <<factory, vars, next_action, wait_secs, sent, applied>>

\* wait_for_response that gives up when the deadline passes
RecvElapsed_gives_up ==
    /\ pc = "wait"
    /\ recv' = [kind |-> "elapsed", data |-> <<>>]
    /\ Return(Err(Critical("No response")))
    /\ fed' = 0
    /\ UNCHANGED <<factory, vars, next_action, wait_secs, sent, applied>>

\* wait_for_response: the deadline passes without a datagram
RecvElapsed ==
    /\ pc = "wait"
    /\ recv' = [kind |-> "elapsed", data |-> <<>>]
    /\ Feed(EvTimeout)
    /\ UNCHANGED <<factory, wait_secs, sent, applied>>

\* NetworkConfigurator::apply_lease: succeeds or fails
ApplyOutcomes == {Ok(<<>>), Err("ApplyError")}

\* the StoreLease arm that applies the lease and goes on with the loop
Finish_keeps_looping ==
    /\ pc = "loop"
    /\ next_action.type \in {"StoreLease", "Exit"}
    /\ IF next_action.type = "StoreLease"
       THEN \E outcome \in ApplyOutcomes :
                /\ applied' = Append(applied, [lease |-> next_action.lease,
                                               outcome |-> outcome])
                /\ Feed(EvTimeout)
       ELSE /\ Return(Err(Critical("State machine exited prematurely")))
            /\ fed' = 0
            /\ UNCHANGED <<vars, next_action, applied>>
    /\ UNCHANGED <<factory, wait_secs, recv, sent>>

\* the terminal arms, with a failure of apply_lease returned to the caller
Finish_returns_apply_error ==
    /\ pc = "loop"
    /\ next_action.type \in {"StoreLease", "Exit"}
    /\ IF next_action.type = "StoreLease"
       THEN \E outcome \in ApplyOutcomes :
                /\ applied' = Append(applied, [lease |-> next_action.lease,
                                               outcome |-> outcome])
                /\ IF outcome.ok
                   THEN pc' = "return" /\ UNCHANGED run_result
                   ELSE Return(outcome)
       ELSE /\ Return(Err(Critical("State machine exited prematurely")))
            /\ UNCHANGED applied
    /\ fed' = 0
    /\ UNCHANGED <<factory, vars, next_action, wait_secs, recv, sent>>

\* the terminal arms of the match: Action::StoreLease up to the call of
\* apply_lease, whose failure is only logged, and Action::Exit
Finish ==
    /\ pc = "loop"
    /\ next_action.type \in {"StoreLease", "Exit"}
    /\ IF next_action.type = "StoreLease"
       THEN \E outcome \in ApplyOutcomes :
                /\ applied' = Append(applied, [lease |-> next_action.lease,
                                               outcome |-> outcome])
                /\ pc' = "return"
                /\ UNCHANGED run_result
       ELSE /\ Return(Err(Critical("State machine exited prematurely")))
            /\ UNCHANGED applied
    /\ fed' = 0
    /\ UNCHANGED <<factory, vars, next_action, wait_secs, recv, sent>>

\* return Ok(lease)
ReturnLease ==
    /\ pc = "return"
    /\ Return(Ok(next_action.lease))
    /\ fed' = 0
    /\ UNCHANGED <<factory, vars, next_action, wait_secs, recv, sent, applied>>

DriverNext ==
    \/ RunStart
    \/ SendDatagram
    \/ SendFails
    \/ EnterWait
    \/ RecvDatagram
    \/ RecvFails
    \/ RecvElapsed
    \/ Finish
    \/ ReturnLease

DriverSpec == Init /\ [][DriverNext]_allvars

\* The driver with the clock: wait_secs is the time left to the deadline of
\* time::timeout(duration, recv_from), in seconds.

\* a second passes while recv_from is pending
Tick ==
    /\ pc = "wait"
    /\ wait_secs > 0
    /\ wait_secs' = wait_secs - 1
    /\ fed' = 0
    /\ UNCHANGED <<factory, vars, pc, next_action, recv, sent, applied, run_result>>

\* one datagram of each kind the driver can tell apart, for every xid: an
\* OFFER with and without server identifier, an ACK, a NAK, a reply of another
\* type, a reply without type, and bytes that do not decode
SampleDatagrams ==
    UNION { { Encode(ServerMessage(x, Ip(1), Some(Offer), Some(Ip(1)), <<>>)),
              Encode(ServerMessage(x, Ip(1), Some(Offer), None, <<>>)),
              Encode(ServerMessage(x, Ip(1), Some(Ack), Some(Ip(1)), <<>>)),
              Encode(ServerMessage(x, UNSPECIFIED, Some(Nak), None, <<>>)),
              Encode(ServerMessage(x, UNSPECIFIED, Some(Discover), None, <<>>)),
              Encode(ServerMessage(x, UNSPECIFIED, None, None, <<>>)) }
            : x \in Xids } \cup {Garbage}

\* wait_for_response: recv_from yields a datagram at or before the deadline
RecvInTime ==
    \E data \in SampleDatagrams :
        /\ pc = "wait"
        /\ recv' = [kind |-> "datagram", data |-> data]
        /\ Feed(EvPacketReceived(data))
        /\ UNCHANGED <<factory, wait_secs, sent, applied>>

\* time::timeout returns Err(Elapsed) once the deadline is reached; a datagram
\* that is ready is returned first, even at the deadline
DeadlineElapsed ==
    /\ wait_secs = 0
    /\ RecvElapsed

TimedNext ==
    \/ RunStart
    \/ SendDatagram
    \/ SendFails
    \/ EnterWait
    \/ Tick
    \/ RecvInTime
    \/ RecvFails
    \/ DeadlineElapsed
    \/ Finish
    \/ ReturnLease

TimedSpec == Init /\ [][TimedNext]_allvars

\* the runtime resumes run whenever it can take a step: time passes, a send
\* completes, a datagram arrives or the deadline of the wait is reached
LiveSpec == TimedSpec /\ WF_allvars(TimedNext)

----------------------------------------------------------------------------
(* src/src/network/mod.rs: new_tokio_socket_bound_to_device, one action per *)
(* system call, each of which succeeds or fails                             *)

\* the call goes on to step next with the socket sock
Proceed(next, sock) ==
    [factory EXCEPT !.at = next, !.trace = Append(@, factory.at), !.sock = sock]

\* the call returns Err(err): `?`, or the explicit return of BindToDevice
Abort(err) ==
    [factory EXCEPT !.at = "return", !.trace = Append(@, factory.at),
                    !.result = Some(Err(err))]

\* Socket::new(Domain::IPV4, Type::DGRAM, None).map_err(CreateSocket)?
CreateSocket ==
    /\ factory.linux
    /\ factory.at = "Socket::new"
    /\ \E ok \in BOOLEAN :
           factory' = IF ok
                      THEN Proceed("set_broadcast", [factory.sock EXCEPT !.fd = TRUE])
                      ELSE Abort(SocketError("CreateSocket"))
    /\ UNCHANGED <<vars, dvars>>

\* socket2.set_broadcast(true).map_err(SetBroadcast)?
SetBroadcast ==
    /\ factory.at = "set_broadcast"
    /\ \E ok \in BOOLEAN :
           factory' = IF ok
                      THEN Proceed("set_reuse_address",
                                   [factory.sock EXCEPT !.broadcast = TRUE])
                      ELSE Abort(SocketError("SetBroadcast"))
    /\ UNCHANGED <<vars, dvars>>

\* socket2.set_reuse_address(true).map_err(SetReuseAddress)?
SetReuseAddress ==
    /\ factory.at = "set_reuse_address"
    /\ \E ok \in BOOLEAN :
           factory' = IF ok
                      THEN Proceed("setsockopt",
                                   [factory.sock EXCEPT !.reuse_address = TRUE])
                      ELSE Abort(SocketError("SetReuseAddress"))
    /\ UNCHANGED <<vars, dvars>>

\* libc::setsockopt(.., SO_BINDTODEVICE, interface) and the test ret < 0
BindToDevice ==
    /\ factory.at = "setsockopt"
    /\ \E ok \in BOOLEAN :
           factory' = IF ok
                      THEN Proceed("bind",
                                   [factory.sock EXCEPT
                                        !.device = Some(factory.interface)])
                      ELSE Abort(BindToDeviceError(factory.interface))
    /\ UNCHANGED <<vars, dvars>>

\* bind that may be done before the device is bound, which is then skipped
BindSocket_before_device ==
    /\ factory.at \in {"setsockopt", "bind"}
    /\ \E ok \in BOOLEAN :
           factory' =
               IF ok
               THEN [factory EXCEPT
                         !.at = "set_nonblocking",
                         !.trace = Append(@, "bind"),
                         !.sock = [@ EXCEPT !.addr = Some([ip |-> UNSPECIFIED,
                                                           port |-> factory.port])]]
               ELSE [factory EXCEPT
                         !.at = "return",
                         !.trace = Append(@, "bind"),
                         !.result = Some(Err(SocketError("BindSocket")))]
    /\ UNCHANGED <<vars, dvars>>

\* socket2.bind("0.0.0.0:{port}").map_err(BindSocket)?
BindSocket ==
    /\ factory.at = "bind"
    /\ \E ok \in BOOLEAN :
           factory' = IF ok
                      THEN Proceed("set_nonblocking",
                                   [factory.sock EXCEPT
                                        !.addr = Some([ip |-> UNSPECIFIED,
                                                       port |-> factory.port])])
                      ELSE Abort(SocketError("BindSocket"))
    /\ UNCHANGED <<vars, dvars>>

\* std_socket.set_nonblocking(true).map_err(SetNonBlocking)?
SetNonBlocking ==
    /\ factory.at = "set_nonblocking"
    /\ \E ok \in BOOLEAN :
           factory' = IF ok
                      THEN Proceed("from_std",
                                   [factory.sock EXCEPT !.nonblocking = TRUE])
                      ELSE Abort(SocketError("SetNonBlocking"))
    /\ UNCHANGED <<vars, dvars>>

\* TokioUdpSocket::from_std(std_socket).map_err(ConvertToTokio), the value of
\* the function
ConvertToTokio ==
    /\ factory.at = "from_std"
    /\ \E ok \in BOOLEAN :
           factory' = IF ok
                      THEN LET sock == [factory.sock EXCEPT !.tokio = TRUE]
                           IN [Proceed("return", sock) EXCEPT
                                   !.result = Some(Ok(sock))]
                      ELSE Abort(SocketError("ConvertToTokio"))
    /\ UNCHANGED <<vars, dvars>>

\* #[cfg(not(target_os = "linux"))]: Err(SocketError::NotImplemented)
NotImplemented ==
    /\ ~factory.linux
    /\ factory.at = "Socket::new"
    /\ factory' = [factory EXCEPT !.at = "return",
                                  !.result = Some(Err(SocketError("NotImplemented")))]
    /\ UNCHANGED <<vars, dvars>>

\* DhcpClient::new has called the factory; no handler and no client exist yet
FactoryInit ==
    /\ state = "Init"
    /\ mac_address = CHOOSE mac \in Macs : TRUE
    /\ xid = CHOOSE x \in Xids : TRUE
    /\ offer = None
    /\ event = NoEvent
    /\ result = NotCalled
    /\ visited = <<>>
    /\ pc = "new"
    /\ next_action = NoAction
    /\ wait_secs = 0
    /\ recv = NoRecv
    /\ sent = None
    /\ fed = 0
    /\ applied = <<>>
    /\ run_result = None
    /\ factory \in {FactoryCall(interface, port, linux) :
                        interface \in Interfaces, port \in Ports, linux \in BOOLEAN}

FactoryNext ==
    \/ CreateSocket
    \/ SetBroadcast
    \/ SetReuseAddress
    \/ BindToDevice
    \/ BindSocket
    \/ SetNonBlocking
    \/ ConvertToTokio
    \/ NotImplemented

FactorySpec == FactoryInit /\ [][FactoryNext]_allvars

----------------------------------------------------------------------------
(* Vocabulary of the properties.  A received datagram is read from its     *)
(* wire form, a sent one by decoding the bytes of the Send action.         *)

IsPacket(ev) == ev.type = "PacketReceived"

Decodable(ev) == IsPacket(ev) /\ ev.data.cookie = <<99, 130, 83, 99>>

\* the payloads the datagram carries for an option code
WireOption(bytes, code) ==
    {bytes.options[i][2] : i \in {j \in DOMAIN bytes.options : bytes.options[j][1] = code}}

HasOption(bytes, code) == WireOption(bytes, code) # {}

\* a decodable datagram of message type t (option 53) with transaction id x
IsReply(ev, t, x) ==
    /\ Decodable(ev)
    /\ ev.data.xid = x
    /\ WireOption(ev.data, 53) = {t}

IsSend(res) == res.ok /\ res.val.type = "Send"

IsWait5(res) == res.ok /\ res.val.type = "Wait" /\ res.val.secs = 5

IsStoreLease(res) == res.ok /\ res.val.type = "StoreLease"

ToBroadcast67(res) ==
    /\ res.val.addr.ip = <<255, 255, 255, 255>>
    /\ res.val.addr.port = 67

\* res is Send of a message of type t with transaction id x and hardware address mac
IsSendOf(res, t, x, mac) ==
    /\ IsSend(res)
    /\ res.val.packet.cookie = <<99, 130, 83, 99>>
    /\ res.val.packet.xid = x
    /\ SubSeq(res.val.packet.chaddr, 1, res.val.packet.hlen) = mac
    /\ WireOption(res.val.packet, 53) = {t}

----------------------------------------------------------------------------
(* Properties *)

\* C1: a call handle_event(Timeout) on a handler in state Init without a
\* pending offer returns Send(DISCOVER with the handler's xid and MAC,
\* 255.255.255.255:67) and leaves state Selecting, the xid unchanged and no
\* pending offer.
C1_InitTimeoutSendsDiscover ==
    [][ (state = "Init" /\ offer = None /\ event' = EvTimeout)
        => /\ IsSendOf(result', 1, xid, mac_address)
           /\ ToBroadcast67(result')
           /\ state' = "Selecting"
           /\ xid' = xid
           /\ offer' = None ]_vars

\* a fresh handler has been fed Timeout
C1_Witness ==
    /\ event = EvTimeout
    /\ visited = <<"Selecting">>
    /\ state = "Selecting"
    /\ IsSendOf(result, 1, xid, mac_address)

\* C2: in Selecting with xid X, a decodable OFFER with xid X and a
\* Server-Identifier option moves the machine to Requesting, stores the decoded
\* packet as the pending offer and returns Send(REQUEST, 255.255.255.255:67)
\* with xid X, Requested-IP = the OFFER's yiaddr and Server-Identifier = the
\* OFFER's option 54.
C2_OfferAccepted ==
    [][ (state = "Selecting" /\ IsReply(event', 2, xid) /\ HasOption(event'.data, 54))
        => /\ state' = "Requesting"
           /\ IsSome(offer')
           /\ Encode(Unwrap(offer')) = event'.data
           /\ IsSendOf(result', 3, xid, mac_address)
           /\ ToBroadcast67(result')
           /\ WireOption(result'.val.packet, 50) = {event'.data.yiaddr}
           /\ WireOption(result'.val.packet, 54) = WireOption(event'.data, 54) ]_vars

\* an OFFER whose yiaddr differs from its server identifier has been accepted
C2_Witness ==
    /\ state = "Requesting"
    /\ visited = <<"Requesting">>
    /\ IsReply(event, 2, xid)
    /\ HasOption(event.data, 54)
    /\ WireOption(event.data, 54) # {event.data.yiaddr}
    /\ IsSendOf(result, 3, xid, mac_address)

\* the value of a singleton option as the lease carries it
LeaseField(bytes, code) ==
    IF HasOption(bytes, code)
    THEN Some(CHOOSE v \in WireOption(bytes, code) : TRUE)
    ELSE None

\* the value of a u32 seconds option as a duration of that many seconds
SecondsField(bytes, code) ==
    IF HasOption(bytes, code)
    THEN Some([secs |-> <<0, 0>> \o (CHOOSE v \in WireOption(bytes, code) : TRUE),
               nanos |-> 0])
    ELSE None

\* C3: in Requesting with xid X, a decodable ACK with xid X moves the machine
\* to Bound and returns StoreLease(l) with l.offered_ip the ACK's yiaddr and
\* subnet_mask, routers, dns_servers, lease_duration, server_identifier the
\* ACK's options 1, 3, 6, 51, 54, each absent exactly when the option is.
C3_AckStoresLease ==
    [][ (state = "Requesting" /\ IsReply(event', 5, xid))
        => /\ state' = "Bound"
           /\ IsStoreLease(result')
           /\ result'.val.lease.offered_ip = event'.data.yiaddr
           /\ result'.val.lease.subnet_mask = LeaseField(event'.data, 1)
           /\ result'.val.lease.routers = LeaseField(event'.data, 3)
           /\ result'.val.lease.dns_servers = LeaseField(event'.data, 6)
           /\ result'.val.lease.lease_duration = SecondsField(event'.data, 51)
           /\ result'.val.lease.server_identifier = LeaseField(event'.data, 54) ]_vars

\* an ACK with routers but without DNS servers has been accepted
C3_Witness ==
    /\ state = "Bound"
    /\ visited = <<"Bound">>
    /\ IsReply(event, 5, xid)
    /\ IsStoreLease(result)
    /\ IsSome(result.val.lease.routers)
    /\ ~IsSome(result.val.lease.dns_servers)

\* C4: in Requesting with xid X1, a decodable NAK with xid X1 returns the state
\* to Init, clears the pending offer, generates a new xid X2 # X1, and the
\* action is Send(DISCOVER, 255.255.255.255:67) carrying X2.
C4_NakRestartsWithNewXid ==
    [][ (state = "Requesting" /\ IsReply(event', 6, xid))
        => /\ visited' = <<"Init", "Selecting">>
           /\ offer' = None
           /\ xid' # xid
           /\ IsSendOf(result', 1, xid', mac_address)
           /\ ToBroadcast67(result') ]_vars

\* C5: a decodable packet whose xid differs from the machine's never causes a
\* transition, in any state and for any message type: state, xid and pending
\* offer are unchanged, and in Selecting and Requesting the action is Wait(5 s).
C5_ForeignXidIgnored ==
    [][ (Decodable(event') /\ event'.data.xid # xid)
        => /\ state' = state
           /\ xid' = xid
           /\ offer' = offer
           /\ (state \in {"Selecting", "Requesting"} => IsWait5(result')) ]_vars

\* C6: in Selecting with matching xid, an OFFER without option 54 causes no
\* transition: the machine stays in Selecting without a pending offer, no
\* error is returned and the action is Wait(5 s).
C6_OfferWithoutServerIdIgnored ==
    [][ (state = "Selecting" /\ IsReply(event', 2, xid) /\ ~HasOption(event'.data, 54))
        => /\ state' = "Selecting"
           /\ offer' = None
           /\ IsWait5(result') ]_vars

\* C7: in every reachable state the pending offer is present if and only if
\* the state is Requesting.
C7_OfferIffRequesting == IsSome(offer) <=> state = "Requesting"

\* C8: every StoreLease the machine emits carries a non-zero offered_ip and a
\* present server_identifier.
C8_LeaseHasIpAndServer ==
    IsStoreLease(result)
        => /\ result.val.lease.offered_ip # <<0, 0, 0, 0>>
           /\ IsSome(result.val.lease.server_identifier)

\* C9: every Send action, DISCOVER or REQUEST, first transmission or retry,
\* has destination 255.255.255.255 port 67.
C9_SendToBroadcast67 == IsSend(result) => ToBroadcast67(result)

\* a REQUEST has been sent again after a timeout in Requesting
C9_Witness ==
    /\ state = "Requesting"
    /\ event = EvTimeout
    /\ IsSendOf(result, 3, xid, mac_address)

\* C10: in Selecting, Timeout sets the state to Init and re-enters through the
\* Init rule: the xid is unchanged, no pending offer is stored and the action
\* is Send(DISCOVER, 255.255.255.255:67) with the same xid.
C10_SelectingTimeoutRetries ==
    [][ (state = "Selecting" /\ event' = EvTimeout)
        => /\ visited' = <<"Init", "Selecting">>
           /\ state' = "Selecting"
           /\ xid' = xid
           /\ offer' = None
           /\ IsSendOf(result', 1, xid, mac_address)
           /\ ToBroadcast67(result') ]_vars

\* a timeout in Selecting has been handled
C10_Witness ==
    /\ event = EvTimeout
    /\ visited = <<"Init", "Selecting">>
    /\ offer = None
    /\ IsSendOf(result, 1, xid, mac_address)

\* the events a caller may feed
Events == {EvTimeout} \cup {EvPacketReceived(data) : data \in Datagrams}

\* C12: the state machine is deterministic: from one context (state, MAC,
\* xid, pending offer) one event yields one action and one next context,
\* whatever the call draws, a NAK-induced restart included.
C12_Deterministic ==
    \A ev \in Events : \A r1, r2 \in Xids :
        handle_event(Self, ev, r1) = handle_event(Self, ev, r2)

\* C14: once Bound the machine stays Bound: every later event returns Exit and
\* changes neither state, xid nor pending offer, and StoreLease is returned
\* only by the call that enters Bound, so at most once.
C14_BoundIsFinal ==
    [][ /\ state = "Bound"
           => /\ state' = "Bound"
              /\ result' = [ok |-> TRUE, val |-> [type |-> "Exit"]]
              /\ xid' = xid
              /\ offer' = offer
        /\ IsStoreLease(result') => (state # "Bound" /\ state' = "Bound") ]_vars

\* a Bound machine has been fed an ACK with its xid
C14_Witness ==
    /\ state = "Bound"
    /\ visited = <<>>
    /\ IsReply(event, 5, xid)
    /\ result = [ok |-> TRUE, val |-> [type |-> "Exit"]]

\* C15: the DHCPREQUEST built for an accepted offer has the broadcast flag
\* set, ciaddr 0.0.0.0, op BOOTREQUEST, the given xid and MAC, Msg-Type
\* REQUEST, Requested-IP the offered IP and Server-Identifier the server id.
C15_RequestFields ==
    (IsSend(result) /\ WireOption(result.val.packet, 53) = {3} /\ IsSome(offer))
        => /\ (result.val.packet.flags \div 32768) % 2 = 1
           /\ result.val.packet.ciaddr = <<0, 0, 0, 0>>
           /\ result.val.packet.op = 1
           /\ IsSendOf(result, 3, xid, mac_address)
           /\ WireOption(result.val.packet, 50) = {Unwrap(offer).yiaddr}
           /\ WireOption(result.val.packet, 54) = {Unwrap(offer).opts[54]}

\* C16: an ACK accepted in Requesting whose lease time (option 51) is
\* 0xFFFFFFFF yields a StoreLease without lease_duration.
C16_InfiniteLeaseHasNoDuration ==
    [][ (state = "Requesting" /\ IsReply(event', 5, xid)
            /\ WireOption(event'.data, 51) = {<<65535, 65535>>})
        => /\ IsStoreLease(result')
           /\ result'.val.lease.lease_duration = None ]_vars

\* C17: the xid changes only in the call that handles a matching NAK in
\* Requesting; every other call leaves it, and every packet sent carries the
\* handler's xid, so the retransmissions of one attempt carry one xid.
C17_XidChangesOnlyOnNak ==
    [][ /\ xid' # xid => (state = "Requesting" /\ IsReply(event', 6, xid))
        /\ IsSend(result') => result'.val.packet.xid = xid' ]_vars

\* a NAK has replaced the xid it was sent for
C17_Witness ==
    /\ visited = <<"Init", "Selecting">>
    /\ Decodable(event)
    /\ WireOption(event.data, 53) = {6}
    /\ event.data.xid # xid
    /\ IsSendOf(result, 1, xid, mac_address)

\* C18: in Requesting, Timeout leaves state, pending offer and xid unchanged
\* and returns Send(REQUEST, 255.255.255.255:67) with the xid and the pending
\* offer's yiaddr and server identifier, as when the offer was accepted.
C18_RequestingTimeoutResends ==
    [][ (state = "Requesting" /\ event' = EvTimeout)
        => /\ state' = "Requesting"
           /\ offer' = offer
           /\ xid' = xid
           /\ IsSendOf(result', 3, xid, mac_address)
           /\ ToBroadcast67(result')
           /\ WireOption(result'.val.packet, 50) = {Unwrap(offer).yiaddr}
           /\ WireOption(result'.val.packet, 54) = {Unwrap(offer).opts[54]} ]_vars

\* a decodable datagram with the machine's xid that the state does not await
Unawaited(st, x, ev) ==
    /\ Decodable(ev)
    /\ ev.data.xid = x
    /\ \/ st = "Selecting" /\ WireOption(ev.data, 53) # {2}
       \/ st = "Requesting" /\ WireOption(ev.data, 53) \cap {5, 6} = {}

\* C19: a decodable packet with matching xid that is not of the awaited type
\* (Selecting: not OFFER, or no Msg-Type; Requesting: neither ACK nor NAK, a
\* second OFFER included, or no Msg-Type) returns Wait(5 s) without error and
\* leaves state, xid and pending offer unchanged.
C19_UnawaitedDiscarded ==
    [][ Unawaited(state, xid, event')
        => /\ IsWait5(result')
           /\ state' = state
           /\ xid' = xid
           /\ offer' = offer ]_vars

\* a second OFFER, different from the pending one, has been discarded
C19_Witness ==
    /\ state = "Requesting"
    /\ IsReply(event, 2, xid)
    /\ IsWait5(result)
    /\ IsSome(offer)
    /\ Unwrap(offer).yiaddr # event.data.yiaddr

----------------------------------------------------------------------------
(* Properties of the driver, checked under DriverSpec *)

RunReturned == pc = "done"

ReturnedOk == RunReturned /\ Unwrap(run_result).ok

ReturnedErr == RunReturned /\ ~Unwrap(run_result).ok

\* C11: a received datagram that fails to decode, in Selecting or in
\* Requesting, makes handle_event return the Protocol decode error, not a Wait,
\* and run returns that error: nothing is sent, no lease is applied or
\* returned, and no step follows the return.
C11_DecodeErrorEndsRun ==
    [][ /\ (fed' = 1 /\ IsPacket(event') /\ ~Decodable(event'))
           => /\ state \in {"Selecting", "Requesting"}
              /\ result' = [ok |-> FALSE,
                             val |-> [kind |-> "Protocol", what |-> "decode"]]
              /\ pc' = "done"
              /\ run_result' = <<result'>>
              /\ sent' = sent
              /\ applied' = <<>>
        /\ pc # "done" ]_allvars

\* run has ended on an undecodable datagram received in Requesting
C11_Witness ==
    /\ ReturnedErr
    /\ state = "Requesting"
    /\ IsPacket(event)
    /\ ~Decodable(event)
    /\ Unwrap(run_result).val.kind = "Protocol"

\* C13: apply is called exactly once if run returns Ok and never otherwise;
\* the call comes after the ACK is processed and before run returns, on the
\* lease that run returns, and run returns that lease whether apply succeeds
\* or fails.
C13_ApplyOnceOnReturnedLease ==
    /\ [](/\ Len(applied) <= 1
          /\ applied # <<>>
                => /\ state = "Bound"
                   /\ IsStoreLease(result)
                   /\ applied[1].lease = result.val.lease
                   /\ pc \in {"return", "done"}
          /\ ReturnedOk => (Len(applied) = 1
                              /\ Unwrap(run_result).val = applied[1].lease)
          /\ ReturnedErr => applied = <<>>)
    /\ [][ applied # <<>>
             => /\ pc' = "done"
                /\ run_result' = <<[ok |-> TRUE, val |-> applied[1].lease]>>
                /\ applied' = applied ]_allvars

\* run has returned a lease that apply_lease failed to apply
C13_Witness ==
    /\ ReturnedOk
    /\ Len(applied) = 1
    /\ ~applied[1].outcome.ok
    /\ Unwrap(run_result).val = applied[1].lease

\* C20: the driver feeds one event per non-terminal action, in program order:
\* first one Timeout; a Send is transmitted and then waited on for 5 s, a
\* Wait(d) is waited on for d; a wait ended by a datagram feeds PacketReceived
\* of that datagram, one ended by its deadline feeds Timeout (one ended by a
\* socket error ends run); the action the event returns is the next one
\* executed; no event is fed after StoreLease or Exit.
C20_OneEventPerAction ==
    [][ /\ pc = "start" => (fed' = 1 /\ event' = EvTimeout)
        /\ (pc = "loop" /\ next_action.type = "Send")
              => /\ fed' = 0
                 /\ \/ /\ pc' = "wait"
                       /\ sent' = <<<<next_action.packet, next_action.addr>>>>
                       /\ wait_secs' = 5
                    \/ /\ pc' = "done"
                       /\ ~Unwrap(run_result').ok
                       /\ Unwrap(run_result').val.kind = "Io"
        /\ (pc = "loop" /\ next_action.type = "Wait")
              => /\ fed' = 0
                 /\ pc' = "wait"
                 /\ wait_secs' = next_action.secs
                 /\ sent' = sent
        /\ pc = "wait"
              => \/ /\ recv'.kind = "datagram"
                    /\ fed' = 1
                    /\ event' = [type |-> "PacketReceived", data |-> recv'.data]
                 \/ /\ recv'.kind = "elapsed"
                    /\ fed' = 1
                    /\ event' = EvTimeout
                 \/ /\ recv'.kind = "error"
                    /\ fed' = 0
                    /\ pc' = "done"
                    /\ Unwrap(run_result').val.kind = "Io"
        /\ (pc = "return" \/ next_action.type \in {"StoreLease", "Exit"})
              => (fed' = 0 /\ pc' \in {"return", "done"})
        /\ fed' = 0 => vars' = vars
        /\ (fed' = 1 /\ result'.ok) => (pc' = "loop" /\ next_action' = result'.val)
        /\ pc' = "loop" => fed' = 1 ]_allvars

\* a REQUEST has been transmitted and its 5 s wait has begun
C20_Witness ==
    /\ pc = "wait"
    /\ wait_secs = 5
    /\ fed = 0
    /\ state = "Requesting"
    /\ IsSome(sent)
    /\ Unwrap(sent)[1] = result.val.packet
    /\ recv.kind = "datagram"

\* run has returned the error of a failed send_to or recv_from
IoReturned(rr) == rr # <<>> /\ ~rr[1].ok /\ rr[1].val.kind = "Io"

\* the step ends run with an Io error: no event fed, the machine untouched,
\* no lease applied
EndsWithIo ==
    /\ pc' = "done"
    /\ IoReturned(run_result')
    /\ fed' = 0
    /\ vars' = vars
    /\ applied' = <<>>

\* C21: an expired wait is never an error: it feeds Timeout, the handler
\* returns an action and the loop goes on with it.  A failure of recv_from or
\* of send_to ends run with an Io error, no event is fed and no lease applied;
\* run returns Io in no other step, and no step follows a return.
C21_ExpiryFeedsTimeoutIoEndsRun ==
    [][ /\ (pc = "wait" /\ recv'.kind = "elapsed")
           => /\ fed' = 1
              /\ event' = EvTimeout
              /\ result'.ok
              /\ pc' = "loop"
              /\ next_action' = result'.val
              /\ run_result' = <<>>
        /\ (pc = "wait" /\ recv'.kind = "error") => EndsWithIo
        /\ (pc = "loop" /\ next_action.type = "Send" /\ pc' # "wait") => EndsWithIo
        /\ IoReturned(run_result')
              => \/ pc = "wait" /\ recv'.kind = "error"
                 \/ pc = "loop" /\ next_action.type = "Send"
        /\ pc # "done" ]_allvars

\* a wait for the ACK has expired, the REQUEST has been sent again and then
\* recv_from has failed
C21_Witness ==
    /\ pc = "done"
    /\ IoReturned(run_result)
    /\ recv.kind = "error"
    /\ state = "Requesting"
    /\ event = EvTimeout
    /\ IsSendOf(result, 3, xid, mac_address)
    /\ applied = <<>>

\* C22: Exit is never observed: the handler is never called once Bound, so no
\* call returns Exit, Exit is never the action to execute, and run never
\* returns Critical "State machine exited prematurely"; Bound is entered only
\* by the call returning StoreLease, on which run returns.
C22_ExitNeverObserved ==
    /\ [](/\ next_action.type # "Exit"
          /\ result # [ok |-> TRUE, val |-> [type |-> "Exit"]]
          /\ run_result # <<[ok |-> FALSE,
                             val |-> [kind |-> "Critical",
                                      what |-> "State machine exited prematurely"]]>>
          /\ state = "Bound"
                => /\ IsStoreLease(result)
                   /\ next_action = result.val
                   /\ pc \in {"loop", "return", "done"})
    /\ [][ state = "Bound" => (fed' = 0 /\ vars' = vars) ]_allvars

\* run has returned the lease of a Bound machine
C22_Witness ==
    /\ state = "Bound"
    /\ ReturnedOk
    /\ IsReply(event, 5, xid)
    /\ Unwrap(run_result).val = result.val.lease

----------------------------------------------------------------------------
(* Further properties of the state machine, checked under Spec *)

\* C25: Init is only the construction state: every handle_event call, whether
\* it returns an action or an error, leaves the state Selecting, Requesting or
\* Bound, also after a NAK-induced restart and after a Selecting timeout.
C25_InitOnlyAtConstruction ==
    /\ [](state = "Init" <=> event = [type |-> "None", data |-> <<>>])
    /\ [][ state' \in {"Selecting", "Requesting", "Bound"} ]_vars

\* a NAK has restarted the machine, which passed Init and is in Selecting
C25_Witness ==
    /\ state = "Selecting"
    /\ visited = <<"Init", "Selecting">>
    /\ Decodable(event)
    /\ WireOption(event.data, 53) = {6}
    /\ offer = <<>>

\* C26: a handle_event call that returns an error leaves state, xid and
\* pending offer as they were before the call.
C26_ErrorLeavesMachine ==
    [][ ~result'.ok => (state' = state /\ xid' = xid /\ offer' = offer) ]_vars

\* C27: whenever the state is Requesting a pending offer is stored, and no
\* handle_event call returns the Critical error "No offer available for
\* request".
C27_RequestingHasOffer ==
    /\ state = "Requesting" => offer # <<>>
    /\ result # [ok |-> FALSE,
                 val |-> [kind |-> "Critical",
                          what |-> "No offer available for request"]]

\* the REQUEST for the pending offer has been built again on a timeout
C27_Witness ==
    /\ state = "Requesting"
    /\ event = EvTimeout
    /\ offer # <<>>
    /\ IsSend(result)
    /\ WireOption(result.val.packet, 50) = {Unwrap(offer).yiaddr}

\* C28: every DISCOVER carries the handler's xid and a new xid is sent in a
\* DISCOVER by the call that draws it, so the handler's xid is that of the
\* last DISCOVER; every REQUEST carries that xid and the yiaddr and server
\* identifier of the pending offer, which is the one OFFER accepted in
\* Selecting under that xid; a NAK restart clears the offer and replaces the
\* xid by a different one, so no later REQUEST carries the old xid.
C28_RequestOfCurrentAttempt ==
    [][ /\ (IsSend(result') /\ WireOption(result'.val.packet, 53) = {1})
              => result'.val.packet.xid = xid'
        /\ xid' # xid => IsSendOf(result', 1, xid', mac_address)
        /\ (IsSend(result') /\ WireOption(result'.val.packet, 53) = {3})
              => /\ xid' = xid
                 /\ result'.val.packet.xid = xid
                 /\ offer' # <<>>
                 /\ Unwrap(offer').xid = xid
                 /\ WireOption(result'.val.packet, 50) = {Unwrap(offer').yiaddr}
                 /\ WireOption(result'.val.packet, 54) = {Unwrap(offer').opts[54]}
        /\ offer' # offer
              => \/ /\ state = "Selecting"
                    /\ offer = <<>>
                    /\ IsReply(event', 2, xid)
                    /\ Encode(Unwrap(offer')) = event'.data
                 \/ /\ state = "Requesting"
                    /\ IsReply(event', 6, xid)
                    /\ offer' = <<>>
        /\ (state = "Requesting" /\ IsReply(event', 6, xid))
              => (offer' = <<>> /\ xid' # xid) ]_vars

\* C29: in Requesting an ACK with the machine's xid is accepted whatever the
\* pending offer and the REQUEST sent were: the machine becomes Bound and
\* returns StoreLease with the ACK's yiaddr and the ACK's option 54, and the
\* pending offer is not touched.
C29_AckNotComparedWithOffer ==
    [][ (state = "Requesting" /\ IsReply(event', 5, xid))
        => /\ state' = "Bound"
           /\ IsStoreLease(result')
           /\ result'.val.lease.offered_ip = event'.data.yiaddr
           /\ result'.val.lease.server_identifier = LeaseField(event'.data, 54)
           /\ offer' = offer ]_vars

\* an ACK whose yiaddr and server identifier both differ from the accepted
\* OFFER's has bound the machine
C29_Witness ==
    /\ state = "Bound"
    /\ IsReply(event, 5, xid)
    /\ IsStoreLease(result)
    /\ offer # <<>>
    /\ HasOption(event.data, 54)
    /\ 54 \in DOMAIN Unwrap(offer).opts
    /\ result.val.lease.offered_ip = event.data.yiaddr
    /\ result.val.lease.offered_ip # Unwrap(offer).yiaddr
    /\ result.val.lease.server_identifier # <<Unwrap(offer).opts[54]>>

----------------------------------------------------------------------------
(* Termination of the driver, checked under LiveSpec *)

\* no datagram has arrived and no socket operation has failed
Silent == recv.kind \in {"none", "elapsed"} /\ ~IoReturned(run_result)

\* the datagram last transmitted is a DISCOVER with the handler's xid, and its
\* 5 s wait has begun
DiscoverOnTheWire ==
    /\ pc = "wait"
    /\ wait_secs = 5
    /\ sent # <<>>
    /\ sent[1][1].xid = xid
    /\ WireOption(sent[1][1], 53) = {1}

\* C30: run has no retry limit.  It returns Ok only with the lease of an ACK
\* that matched the xid, and otherwise only an error; an expired wait never
\* changes the xid; and on a network that stays silent, without socket error,
\* run never returns and sends the DISCOVER with its xid again and again,
\* each time after a wait of 5 s.
C30_NoRetryLimit ==
    /\ [](ReturnedOk => (state = "Bound" /\ IsReply(event, 5, xid)
                            /\ IsStoreLease(result)
                            /\ Unwrap(run_result).val = result.val.lease))
    /\ [][ (pc = "wait" /\ fed' = 1 /\ event' = EvTimeout)
              => (xid' = xid /\ pc' = "loop" /\ IsSend(result')) ]_allvars
    /\ ([]Silent => ([](pc # "done") /\ []<>DiscoverOnTheWire))

\* the DISCOVER has been sent again after a wait that expired in Selecting
C30_Witness ==
    /\ DiscoverOnTheWire
    /\ Silent
    /\ recv.kind = "elapsed"
    /\ visited = <<"Init", "Selecting">>
    /\ fed = 0

----------------------------------------------------------------------------
(* Timing of the driver, checked under TimedSpec *)

\* a decodable datagram that the machine discards: foreign xid, or its xid
\* but not the awaited type
Discarded(st, x, ev) ==
    /\ st \in {"Selecting", "Requesting"}
    /\ Decodable(ev)
    /\ (ev.data.xid # x \/ Unawaited(st, x, ev))

\* C23: the deadline is per datagram.  A discarded datagram returns Wait(5 s)
\* and nothing is sent; executing a Wait starts a wait with the full 5 s
\* whatever was left of the previous deadline and whatever the configured
\* initial_timeout and request_timeout; and Timeout is fed only when a wait
\* has lasted its whole deadline without a datagram, so datagrams arriving
\* less than 5 s apart keep Timeout and every retransmission away.
C23_DeadlinePerDatagram ==
    [][ /\ (fed' = 1 /\ Discarded(state, xid, event'))
              => /\ IsWait5(result')
                 /\ pc' = "loop"
                 /\ next_action' = [type |-> "Wait", secs |-> 5]
                 /\ sent' = sent
        /\ (pc = "loop" /\ next_action.type = "Wait")
              => /\ pc' = "wait"
                 /\ wait_secs' = 5
                 /\ state = "Requesting" => wait_secs' # REQUEST_TIMEOUT_SECS
                 /\ sent' = sent
                 /\ fed' = 0
        /\ (pc = "wait" /\ wait_secs > 0)
              => ~(fed' = 1 /\ event' = EvTimeout) ]_allvars

\* a foreign datagram has been discarded 4 s into the wait for the ACK
C23_Witness ==
    /\ pc = "loop"
    /\ state = "Requesting"
    /\ wait_secs = 1
    /\ recv.kind = "datagram"
    /\ Decodable(event)
    /\ event.data.xid # xid
    /\ next_action = [type |-> "Wait", secs |-> 5]

----------------------------------------------------------------------------
(* The socket factory, checked under FactorySpec *)

\* the system calls of the factory, in the order claimed
FactoryOrder ==
    <<"Socket::new", "set_broadcast", "set_reuse_address", "setsockopt", "bind",
      "set_nonblocking", "from_std">>

\* the error kind of each step
FactoryErrorKinds ==
    <<"CreateSocket", "SetBroadcast", "SetReuseAddress", "BindToDevice",
      "BindSocket", "SetNonBlocking", "ConvertToTokio">>

\* the socket shows the effect of the i-th step
StepDone(sock, i) ==
    CASE i = 1 -> sock.fd
      [] i = 2 -> sock.broadcast
      [] i = 3 -> sock.reuse_address
      [] i = 4 -> sock.device = <<factory.interface>>
      [] i = 5 -> sock.addr = <<[ip |-> <<0, 0, 0, 0>>, port |-> factory.port]>>
      [] i = 6 -> sock.nonblocking
      [] i = 7 -> sock.tokio

FactoryFailed == factory.result # <<>> /\ ~factory.result[1].ok

\* the steps attempted are the first ones of the order; all but a failed last
\* one have taken effect and no other has; a failure returns the error kind of
\* the last step attempted, success returns the socket after all seven
FactoryInOrder ==
    LET n == Len(factory.trace) IN
    /\ n <= 7
    /\ \A i \in 1..n : factory.trace[i] = FactoryOrder[i]
    /\ \A i \in 1..7 :
           StepDone(factory.sock, i) <=> (i <= n /\ ~(FactoryFailed /\ i = n))
    /\ factory.sock.device = <<>> => factory.sock.addr = <<>>
    /\ factory.sock.tokio => factory.sock.nonblocking
    /\ FactoryFailed
          => /\ n >= 1
             /\ factory.result[1].val.kind = FactoryErrorKinds[n]
             /\ n = 4 => factory.result[1].val.interface = factory.interface
    /\ (factory.result # <<>> /\ factory.result[1].ok)
          => (n = 7 /\ factory.result[1].val = factory.sock)
    /\ (factory.result = <<>>) <=> (factory.at # "return")

\* C24: on Linux the factory does create, set broadcast, set address reuse,
\* bind to device, bind 0.0.0.0:port, set non-blocking, hand to the runtime,
\* in this order; the first step that fails returns the error kind of that
\* step and no later step is attempted; so the device is bound before the
\* address and the socket is non-blocking before the runtime gets it.
C24_FactoryStepsInOrder ==
    /\ [](factory.linux => FactoryInOrder)
    /\ [][ factory.result # <<>> => factory' = factory ]_allvars

\* bind has failed on a socket already bound to its device
C24_Witness ==
    /\ factory.linux
    /\ FactoryFailed
    /\ factory.result[1].val.kind = "BindSocket"
    /\ factory.trace = <<"Socket::new", "set_broadcast", "set_reuse_address",
                         "setsockopt", "bind">>
    /\ factory.sock.device = <<factory.interface>>
    /\ factory.sock.addr = <<>>
    /\ ~factory.sock.nonblocking

====
